---- MODULE Spec2Model ----
(***************************************************************************)
(* Appointment scheduling and notification core of autamedica.             *)
(*                                                                         *)
(* The appointments table with its storage constraints, the lifecycle      *)
(* operations of AppointmentsService and of the useAppointments hook, the  *)
(* overlap checks, and the e-mail dispatch (EmailService.send with its     *)
(* retry loop, sendBatchReminders).                                        *)
(*                                                                         *)
(* Timestamps are integers 0..MaxTime; a row is the record of the columns  *)
(* the operations read or write (id, doctor_id, starts_at, ends_at,        *)
(* status).                                                                *)
(***************************************************************************)
EXTENDS Integers, Sequences, FiniteSets, TLC

VARIABLES
    appointments,   \* the rows of public.appointments
    nextId,         \* the next id gen_random_uuid() hands out
    req,            \* per client: the request in flight (between two awaits)
    check,          \* the result of the latest overlap check, or NoCheck
    returned,       \* what the latest operation returned or threw, where observed
    dispatched,     \* number of notification-dispatcher invocations so far
    retryAttempts,  \* EmailService config.retryAttempts
    sendPc,         \* EmailService.send: idle, calling, delay, resolved, rejected
    attempt,        \* the loop variable of send
    providerCalls,  \* what each provider.send call of the current send did
    lastError,      \* message of the last provider error caught by send
    outcome,        \* the response send resolved with, or the error it threw
    delays,         \* the waits of the current send, in ms
    batch,          \* sendBatchReminders: its list, position and results
    notify          \* an appointment e-mail being sent: its options, position, sends

tableVars == <<appointments, nextId, req, check, returned>>
sendVars == <<retryAttempts, sendPc, attempt, providerCalls, lastError, outcome, delays>>
mailVars == <<sendVars, batch, notify>>
apptVars == <<tableVars, dispatched, mailVars>>

(***************************************************************************)
(* Bounds                                                                  *)
(***************************************************************************)
MaxTime == 2
MaxAppointments == 2
MaxClients == 1

Times == 0..MaxTime
Ids == 1..MaxAppointments
Clients == 1..MaxClients
Doctors == {"d1", "d2"}

\* An absent optional field (undefined): a status, a timestamp, an id.
None == "none"
NoTime == MaxTime + 1
NoId == MaxAppointments + 1
NoCheck == [op |-> "none"]
Idle == [op |-> "idle"]

\* returned: no caller observes the outcomes / no operation has completed yet.
Unobserved == [op |-> "unobserved"]
NoCall == [op |-> "none"]

(***************************************************************************)
(* Types (packages/types appointment.ts)                                   *)
(***************************************************************************)
AppointmentStatus ==
    {"scheduled", "confirmed", "in-progress", "completed", "cancelled",
     "no-show", "rescheduled"}

\* Status values a caller passes in CreateAppointmentInput / UpdateAppointmentInput
\* (None: the optional field is absent).
StatusInputs == {None, "scheduled", "confirmed"}

TerminalStatus == {"completed", "cancelled", "no-show"}

(***************************************************************************)
(* Date utilities (packages/utils index.ts).  A timestamp t is the instant *)
(* t ticks of HoursPerTick hours after Thursday 20:00 local time, so that  *)
(* the small timestamps differ in hour of day and in day of week.          *)
(***************************************************************************)
HoursPerTick == 12
EpochHour == 20
EpochDay == 4

\* Date.getHours() and Date.getDay() (0 is Sunday) of the local date.
getHours(date) == (EpochHour + HoursPerTick * date) % 24
getDay(date) == (EpochDay + (EpochHour + HoursPerTick * date) \div 24) % 7

\* toArgentinaTimezone(d) > nowInArgentina(): both sides are shifted alike.
isFutureInArgentina(date, now) == date > now

\* hour >= 8 && hour < 20
isValidMedicalHour(date) == getHours(date) >= 8 /\ getHours(date) < 20

\* day >= 1 && day <= 5
isWeekday(date) == getDay(date) >= 1 /\ getDay(date) <= 5

(***************************************************************************)
(* Storage layer: 001_appointments.sql                                     *)
(***************************************************************************)
\* tstzrange(lo, hi, '[)'): the instants of the half-open range (empty when lo = hi).
tstzrange(lo, hi) == {t \in Times : lo <= t /\ t < hi}

\* The && operator on ranges: the two ranges share an instant.
RangeOverlaps(r1, r2) == r1 \cap r2 # {}

\* Generated column slot = tstzrange(starts_at, ends_at, '[)').
slot(a) == tstzrange(a.starts_at, a.ends_at)

\* (mutation: the check (ends_at > starts_at) is missing)
RowChecks_statusOnly(a) == a.status \in AppointmentStatus

\* Column checks of the table: ends_at > starts_at, status in the allowed list.
RowChecks(a) ==
    /\ a.ends_at > a.starts_at
    /\ a.status \in AppointmentStatus

\* (mutation: the exclusion constraint is missing)
no_overlap_per_doctor_missing(table) == TRUE

\* exclude using gist (doctor_id with =, slot with &&): over all rows, whatever
\* their status.
no_overlap_per_doctor(table) ==
    \A a \in table : \A b \in table :
        (a.id # b.id /\ a.doctor_id = b.doctor_id) => ~RangeOverlaps(slot(a), slot(b))

\* A write is committed only if the resulting table satisfies every constraint.
TableAccepts(table) ==
    /\ \A a \in table : RowChecks(a)
    /\ no_overlap_per_doctor(table)

Row(id, d, s, e, st) ==
    [id |-> id, doctor_id |-> d, starts_at |-> s, ends_at |-> e, status |-> st]

RowOf(id) == CHOOSE a \in appointments : a.id = id
Exists(id) == \E a \in appointments : a.id = id

\* update ... set <patch> where id = ...: the table with row id replaced.
WithRow(table, id, new) == {IF a.id = id THEN new ELSE a : a \in table}

\* A message is the sequence of its parts, each a string.  String.prototype.includes
\* / toContain: part occurs in text as a
\* contiguous run.
Contains(text, part) ==
    \E i \in 1..(Len(text) - Len(part) + 1) :
        SubSeq(text, i, i + Len(part) - 1) = part

\* Error messages of the store, as the sequences of their parts.  NoError: the
\* statement succeeded.
NoError == <<>>
ExclusionViolation ==
    <<"conflicting key value violates exclusion constraint", "no_", "overlap", "_per_doctor">>
CheckViolation == <<"new row for relation appointments violates check constraint">>
RangeBoundsError == <<"range lower bound must be less than or equal to range upper bound">>
NoRowsReturned == <<"JSON object requested, multiple (or no) rows returned">>

\* A select on appointments ends without error, or the store cannot be reached.
StoreUnavailable == <<"TypeError: Failed to fetch">>
QueryErrors == {NoError, StoreUnavailable}

\* The error of insert into appointments: the column checks are evaluated on
\* the new row, then the exclusion constraint on the table.
InsertError(table, row) ==
    IF ~RowChecks(row) THEN CheckViolation
    ELSE IF ~no_overlap_per_doctor(table \cup {row}) THEN ExclusionViolation
    ELSE NoError

\* The error of update ... where id = ... .select().single().
UpdateError(table, id, new) ==
    IF ~\E a \in table : a.id = id THEN NoRowsReturned
    ELSE IF ~RowChecks(new) THEN CheckViolation
    ELSE IF ~no_overlap_per_doctor(WithRow(table, id, new)) THEN ExclusionViolation
    ELSE NoError

(***************************************************************************)
(* Overlap checks                                                          *)
(***************************************************************************)
\* RPC check_appointment_overlap(p_doctor, p_start, p_end): the rows of the doctor
\* whose slot && the candidate range.  The caller guards p_start <= p_end
\* (tstzrange raises otherwise).
check_appointment_overlap(table, p_doctor, p_start, p_end) ==
    {a \in table : a.doctor_id = p_doctor
                   /\ RangeOverlaps(tstzrange(p_start, p_end), slot(a))}

\* (mutation: the excludeId filter is dropped)
checkOverlap_noExclude(table, doctorId, startsAt, endsAt, excludeId) ==
    IF startsAt > endsAt
    THEN [error |-> TRUE, hasOverlap |-> FALSE, conflictingAppointments |-> {}]
    ELSE LET data == check_appointment_overlap(table, doctorId, startsAt, endsAt)
         IN  [error |-> FALSE,
              hasOverlap |-> data # {},
              conflictingAppointments |-> {a.id : a \in data}]

\* AppointmentsService.checkOverlap: the RPC's rows minus excludeId; a storage
\* error (here: an invalid range) is thrown.
checkOverlap(table, doctorId, startsAt, endsAt, excludeId) ==
    IF startsAt > endsAt
    THEN [error |-> TRUE, hasOverlap |-> FALSE, conflictingAppointments |-> {}]
    ELSE LET data == check_appointment_overlap(table, doctorId, startsAt, endsAt)
             conflicts == IF excludeId # NoId
                          THEN {a \in data : a.id # excludeId}
                          ELSE data
         IN  [error |-> FALSE,
              hasOverlap |-> Cardinality(conflicts) > 0,
              conflictingAppointments |-> {a.id : a \in conflicts}]

\* (mutation: closed intervals, .lte / .gte instead of .lt / .gt)
validateAppointmentOverlap_closed(table, startsAt, endsAt, doctorId, excludeId) ==
    LET overlapping ==
            {a \in table :
                /\ a.doctor_id = doctorId
                /\ a.status # "cancelled"
                /\ a.starts_at <= endsAt /\ a.ends_at >= startsAt
                /\ (excludeId # NoId => a.id # excludeId)}
    IN  [error |-> FALSE,
         hasOverlap |-> Cardinality(overlapping) > 0,
         conflictingAppointments |-> {a.id : a \in overlapping}]

\* useAppointments.validateAppointmentOverlap: eq doctor_id, neq status cancelled,
\* starts_at.lt.endsAt and ends_at.gt.startsAt, neq id excludeId when given.
validateAppointmentOverlap(table, startsAt, endsAt, doctorId, excludeId) ==
    LET overlapping ==
            {a \in table :
                /\ a.doctor_id = doctorId
                /\ a.status # "cancelled"
                /\ a.starts_at < endsAt /\ a.ends_at > startsAt
                /\ (excludeId # NoId => a.id # excludeId)}
    IN  [error |-> FALSE,
         hasOverlap |-> Cardinality(overlapping) > 0,
         conflictingAppointments |-> {a.id : a \in overlapping}]

\* validateAppointmentOverlap as its callers see it: when the query ends with an
\* error, the catch returns hasOverlap: false with the error's message.
validateAppointmentOverlapCaught(queryError, table, startsAt, endsAt, doctorId, excludeId) ==
    IF queryError # NoError
    THEN [error |-> FALSE, hasOverlap |-> FALSE, conflictingAppointments |-> {}]
    ELSE validateAppointmentOverlap(table, startsAt, endsAt, doctorId, excludeId)

(***************************************************************************)
(* EmailService (services/email.service.ts)                                *)
(***************************************************************************)
MaxRetryAttempts == 4
RetryAttemptsDefault == 3
RetryDelayMs == 1000

\* What a provider call can do: resolve with a response or throw an Error.
Responses == {"sent", "queued"}
ErrorMessages == {"Network error", "Provider error"}

Undefined == "undefined"
NoBatch == [pc |-> "none"]
NoNotify == [pc |-> "none"]

\* No send and no batch is running (the state the appointment operations see).
MailIdle ==
    /\ retryAttempts = RetryAttemptsDefault
    /\ sendPc = "idle"
    /\ attempt = 0
    /\ providerCalls = <<>>
    /\ lastError = Undefined
    /\ outcome = Undefined
    /\ delays = <<>>
    /\ batch = NoBatch
    /\ notify = NoNotify

(***************************************************************************)
(* Lifecycle operations.  An operation that awaits the store more than     *)
(* once is one action per await; req[c] carries what it holds in between.  *)
(* The status of a create input or of a patch is read only by the write,   *)
(* so it is drawn there.                                                   *)
(***************************************************************************)
CreateOps == {"createAppointment", "createAppointmentSafe"}

\* Room for one more row (bounds the table size).
CanStartCreate ==
    nextId + Cardinality({c \in Clients : req[c].op \in CreateOps}) <= MaxAppointments

\* An operation may be called: always where outcomes are not observed; where
\* they are, one operation is observed per behaviour.
MayCall ==
    \/ returned = Unobserved
    \/ returned = NoCall /\ \A c \in Clients : req[c] = Idle

\* The input of a call: the fields of CreateAppointmentInput / UpdateAppointmentInput
\* the operations read.
Input(d, s, e, st) == [doctor_id |-> d, starts_at |-> s, ends_at |-> e, status |-> st]

\* The operation returns (error = NoError) or throws an Error with the message:
\* the outcome the caller sees, with the table the last statement ran on and
\* the reading of the clock (new Date()) at the call.
ReturnsAt(now, op, id, input, error) ==
    returned' = IF returned = Unobserved
                THEN returned
                ELSE [op |-> op, id |-> id, input |-> input,
                      table |-> appointments, error |-> error, now |-> now]

\* The same for an operation that does not read the clock: it is called at any time.
Returns(op, id, input, error) ==
    IF returned = Unobserved
    THEN UNCHANGED returned
    ELSE \E now \in Times : ReturnsAt(now, op, id, input, error)

\* The result of the overlap pre-check of the operation, where observed.
Checks(op, queryError, overlap) ==
    check' = IF returned = Unobserved
             THEN check
             ELSE [op |-> op, queryError |-> queryError,
                   hasOverlap |-> overlap.hasOverlap]

Finish(c) == req' = [req EXCEPT ![c] = Idle]

\* insert into appointments ... : committed iff the constraints accept the new table.
InsertAppointment(row) ==
    IF TableAccepts(appointments \cup {row})
    THEN /\ appointments' = appointments \cup {row}
         /\ nextId' = nextId + 1
    ELSE UNCHANGED <<appointments, nextId>>

\* update appointments set ... where id = ... .select().single(): an error when no
\* row has the id or a constraint rejects the new row; the table is then unchanged.
UpdateAppointmentRow(id, new) ==
    IF Exists(id) /\ TableAccepts(WithRow(appointments, id, new))
    THEN appointments' = WithRow(appointments, id, new)
    ELSE UNCHANGED appointments

\* `Conflicto de horario detectado. Hay ${overlapping?.length} cita(s) en ese horario.`
HookConflict(n) ==
    <<"Conflicto de horario detectado. Hay", ToString(n), "cita(s) en ese horario.">>

\* `Conflicto detectado: ${conflicts.length} cita(s) en ese horario`
ServiceConflict(n) == <<"Conflicto detectado:", ToString(n), "cita(s) en ese horario">>

\* createAppointmentSafe, if (error): a message that includes 'OVERLAP' becomes
\* the schedule-conflict error, any other one `Error creando cita: ${error.message}`.
createAppointmentSafeError(message) ==
    IF Contains(message, <<"OVERLAP">>)
    THEN <<"Conflicto de horario: el medico ya tiene una cita en ese horario">>
    ELSE <<"Error creando cita:">> \o message

\* (mutation: the status of the input is ignored)
InputStatusOrScheduled_ignored(st) == "scheduled"

\* input.status || 'scheduled'; input.status ?? 'scheduled' and
\* coalesce(p_status, 'scheduled').
InputStatusOrScheduled(st) == IF st = None THEN "scheduled" ELSE st

\* An operation called from a form returns at the clock reading of the form
\* (clock); one called directly reads no clock.
ReturnsFrom(clock, op, id, input, error) ==
    IF clock = NoTime
    THEN Returns(op, id, input, error)
    ELSE ReturnsAt(clock, op, id, input, error)

\* useAppointments.createAppointment, up to the insert: the overlap pre-check,
\* whose query ends with any of QueryErrors.
createAppointment(c, clock, d, s, e) ==
    /\ MayCall
    /\ req[c] = Idle
    /\ CanStartCreate
    /\ \E queryError \in QueryErrors :
        LET overlap == validateAppointmentOverlapCaught(queryError, appointments,
                                                       s, e, d, NoId)
        IN  /\ Checks("createAppointment", queryError, overlap)
            /\ IF overlap.hasOverlap
               THEN /\ UNCHANGED req
                    /\ ReturnsFrom(clock, "createAppointment", NoId, Input(d, s, e, None),
                                   HookConflict(Cardinality(overlap.conflictingAppointments)))
               ELSE /\ req' = [req EXCEPT ![c] =
                            [op |-> "createAppointment", doctor_id |-> d,
                             starts_at |-> s, ends_at |-> e, clock |-> clock]]
                    /\ UNCHANGED returned
    /\ UNCHANGED <<appointments, nextId, dispatched, mailVars>>

\* createAppointment(input) called directly.
CreateAppointmentCheck(c, d, s, e) == createAppointment(c, NoTime, d, s, e)

\* DURATION_OPTIONS of the forms, in ticks.
DurationOptions == 1..MaxTime

\* overlapValidation of a form: null (no overlap known) until the debounced
\* effect has validated the fields, then the result of validateAppointmentOverlap.
OverlapValidation(validated, startsAt, endsAt, doctorId, excludeId) ==
    IF validated
    THEN validateAppointmentOverlap(appointments, startsAt, endsAt, doctorId, excludeId)
    ELSE [error |-> FALSE, hasOverlap |-> FALSE, conflictingAppointments |-> {}]

\* A submit that a rule of the form ends: the message is shown (alert) and
\* nothing else happens.
FormRejects(c, now, op, id, input, error) ==
    /\ MayCall
    /\ req[c] = Idle
    /\ ReturnsAt(now, op, id, input, error)
    /\ UNCHANGED <<appointments, nextId, req, check, dispatched, mailVars>>

\* CreateAppointmentForm.onSubmit, the rules on the start: the message of the
\* first one that throws.
CreateFormError(now, startDate) ==
    IF ~isFutureInArgentina(startDate, now)
    THEN <<"La cita debe ser en el futuro">>
    ELSE IF ~isValidMedicalHour(startDate)
    THEN <<"La cita debe ser en horario medico (8:00 - 20:00)">>
    ELSE IF ~isWeekday(startDate)
    THEN <<"Las citas solo se pueden agendar de lunes a viernes">>
    ELSE NoError

\* CreateAppointmentForm.onSubmit(data): the end is start + duration, the status
\* 'scheduled'; a rule that throws ends the submit, otherwise
\* createAppointment(appointmentInput) is called.
CreateAppointmentFormSubmit(c, now, d, s, duration) ==
    /\ s + duration \in Times
    /\ LET e == s + duration
           input == Input(d, s, e, "scheduled")
           error == CreateFormError(now, s)
       IN  IF error # NoError
           THEN FormRejects(c, now, "CreateAppointmentForm.onSubmit", NoId, input, error)
           ELSE \E validated \in BOOLEAN :
                    LET overlapValidation == OverlapValidation(validated, s, e, d, NoId)
                    IN  IF overlapValidation.hasOverlap
                        THEN FormRejects(c, now, "CreateAppointmentForm.onSubmit", NoId,
                                         input,
                                         HookConflict(Cardinality(
                                            overlapValidation.conflictingAppointments)))
                        ELSE createAppointment(c, now, d, s, e)

\* useAppointments.createAppointment: the insert (status: input.status || 'scheduled');
\* an insert error is thrown with the store's message.
CreateAppointmentInsert(c, st) ==
    /\ req[c].op = "createAppointment"
    /\ req[c].clock # NoTime => st = "scheduled"
    /\ LET row == Row(nextId, req[c].doctor_id, req[c].starts_at, req[c].ends_at,
                      InputStatusOrScheduled(st))
       IN  /\ InsertAppointment(row)
           /\ ReturnsFrom(req[c].clock, "createAppointment", nextId,
                          Input(req[c].doctor_id, req[c].starts_at, req[c].ends_at, st),
                          InsertError(appointments, row))
    /\ Finish(c)
    /\ UNCHANGED <<check, dispatched, mailVars>>

\* create_appointment_safe, the exists(...) test: raises OVERLAP when a row of the
\* doctor (of any status) overlaps; tstzrange raises when p_start > p_end.
CreateAppointmentSafeCheck(c, d, s, e) ==
    /\ MayCall
    /\ req[c] = Idle
    /\ CanStartCreate
    /\ IF s > e \/ check_appointment_overlap(appointments, d, s, e) # {}
       THEN /\ UNCHANGED req
            /\ Returns("createAppointmentSafe", NoId, Input(d, s, e, None),
                       createAppointmentSafeError(
                            IF s > e THEN RangeBoundsError ELSE <<"OVERLAP">>))
       ELSE /\ req' = [req EXCEPT ![c] =
                    [op |-> "createAppointmentSafe", doctor_id |-> d,
                     starts_at |-> s, ends_at |-> e]]
            /\ UNCHANGED returned
    /\ UNCHANGED <<appointments, nextId, check, dispatched, mailVars>>

\* create_appointment_safe, the insert (status: coalesce(p_status, 'scheduled'),
\* p_status = input.status ?? 'scheduled').
CreateAppointmentSafeInsert(c, st) ==
    /\ req[c].op = "createAppointmentSafe"
    /\ LET row == Row(nextId, req[c].doctor_id, req[c].starts_at, req[c].ends_at,
                      InputStatusOrScheduled(st))
           error == InsertError(appointments, row)
       IN  /\ InsertAppointment(row)
           /\ Returns("createAppointmentSafe", nextId,
                      Input(req[c].doctor_id, req[c].starts_at, req[c].ends_at, st),
                      IF error = NoError THEN NoError
                      ELSE createAppointmentSafeError(error))
    /\ Finish(c)
    /\ UNCHANGED <<check, dispatched, mailVars>>

\* AppointmentsService.updateAppointment with patch.starts_at or patch.ends_at:
\* fetch the current row (`Error obteniendo cita: ...` when it does not exist).
UpdateAppointmentFetch(c, op, id, ps, pe) ==
    /\ MayCall
    /\ req[c] = Idle
    /\ ps # NoTime \/ pe # NoTime
    /\ IF ~Exists(id)
       THEN /\ UNCHANGED req
            /\ Returns(op, id, Input(None, ps, pe, None),
                       <<"Error obteniendo cita:">> \o NoRowsReturned)
       ELSE LET current == RowOf(id)
            IN  /\ req' = [req EXCEPT ![c] =
                        [op |-> op, pc |-> "check", id |-> id,
                         starts_at |-> ps, ends_at |-> pe,
                         doctor_id |-> current.doctor_id,
                         newStartsAt |-> IF ps # NoTime THEN ps ELSE current.starts_at,
                         newEndsAt |-> IF pe # NoTime THEN pe ELSE current.ends_at]]
                /\ UNCHANGED returned
    /\ UNCHANGED <<appointments, nextId, check, dispatched, mailVars>>

\* AppointmentsService.updateAppointment(id, patch), first await.
UpdateAppointmentStart(c, id, ps, pe) ==
    /\ id \in Ids
    /\ UpdateAppointmentFetch(c, "updateAppointment", id, ps, pe)

\* AppointmentsService.rescheduleAppointment(id, newStartsAt, newEndsAt):
\* updateAppointment(id, {starts_at, ends_at, status: 'rescheduled'}), first await.
RescheduleAppointmentStart(c, id, s, e) ==
    /\ id \in Ids
    /\ UpdateAppointmentFetch(c, "rescheduleAppointment", id, s, e)

\* updateAppointment: checkOverlap(current.doctor_id, newStartsAt, newEndsAt, id);
\* an error of the RPC (the store cannot be reached, the range is invalid) is
\* thrown as `Error verificando solapamiento: ...`, and a conflict throws.
UpdateAppointmentCheck(c) ==
    /\ req[c].op \in {"updateAppointment", "rescheduleAppointment"}
    /\ req[c].pc = "check"
    /\ \E queryError \in QueryErrors :
        LET overlap == checkOverlap(appointments, req[c].doctor_id,
                                    req[c].newStartsAt, req[c].newEndsAt, req[c].id)
            error == IF queryError # NoError THEN queryError
                     ELSE IF overlap.error THEN RangeBoundsError
                     ELSE NoError
        IN  /\ Checks(req[c].op, error, overlap)
            /\ IF error # NoError \/ overlap.hasOverlap
               THEN /\ Finish(c)
                    /\ Returns(req[c].op, req[c].id,
                               Input(req[c].doctor_id, req[c].starts_at, req[c].ends_at, None),
                               IF error # NoError
                               THEN <<"Error verificando solapamiento:">> \o error
                               ELSE ServiceConflict(
                                        Cardinality(overlap.conflictingAppointments)))
               ELSE /\ req' = [req EXCEPT ![c] =
                            [op |-> req[c].op, pc |-> "write", id |-> req[c].id,
                             starts_at |-> req[c].starts_at, ends_at |-> req[c].ends_at]]
                    /\ UNCHANGED returned
    /\ UNCHANGED <<appointments, nextId, dispatched, mailVars>>

\* The row after update({...patch}): the fields the patch holds replace the row's.
Patched(a, ps, pe, st) ==
    [a EXCEPT !.starts_at = IF ps # NoTime THEN ps ELSE @,
              !.ends_at = IF pe # NoTime THEN pe ELSE @,
              !.status = IF st # None THEN st ELSE @]

\* The error an operation of AppointmentsService throws for a failed update of
\* row id: its prefix, then the store's message.
UpdateThrows(prefix, id, new) ==
    LET error == UpdateError(appointments, id, new)
    IN  IF error = NoError THEN NoError ELSE <<prefix>> \o error

\* updateAppointment: the update of the row with the patch.
UpdateAppointmentWrite(c, st) ==
    /\ req[c].op \in {"updateAppointment", "rescheduleAppointment"}
    /\ req[c].pc = "write"
    /\ req[c].op = "rescheduleAppointment" => st = "rescheduled"
    /\ IF Exists(req[c].id)
       THEN LET new == Patched(RowOf(req[c].id), req[c].starts_at, req[c].ends_at, st)
            IN  /\ UpdateAppointmentRow(req[c].id, new)
                /\ Returns(req[c].op, req[c].id,
                           Input(new.doctor_id, req[c].starts_at, req[c].ends_at, st),
                           UpdateThrows("Error actualizando cita:", req[c].id, new))
       ELSE /\ UNCHANGED appointments
            /\ Returns(req[c].op, req[c].id,
                       Input(None, req[c].starts_at, req[c].ends_at, st),
                       <<"Error actualizando cita:">> \o NoRowsReturned)
    /\ Finish(c)
    /\ UNCHANGED <<nextId, check, dispatched, mailVars>>

\* updateAppointment(id, patch) with a patch that holds no time: one update.
UpdateAppointmentStatus(id, st) ==
    /\ MayCall
    /\ st # None
    /\ Exists(id)
    /\ LET new == Patched(RowOf(id), NoTime, NoTime, st)
       IN  /\ UpdateAppointmentRow(id, new)
           /\ Returns("updateAppointment", id, Input(new.doctor_id, NoTime, NoTime, st),
                      UpdateThrows("Error actualizando cita:", id, new))
    /\ UNCHANGED <<nextId, req, check, dispatched, mailVars>>

\* useAppointments.updateAppointment, the update({...input, updated_at}) of the
\* row; an update error is thrown with the store's message.
useAppointments_update(clock, id, ps, pe, st) ==
    IF Exists(id)
    THEN LET new == Patched(RowOf(id), ps, pe, st)
         IN  /\ UpdateAppointmentRow(id, new)
             /\ ReturnsFrom(clock, "useAppointments.updateAppointment", id,
                            Input(new.doctor_id, ps, pe, st),
                            UpdateError(appointments, id, new))
    ELSE /\ UNCHANGED appointments
         /\ ReturnsFrom(clock, "useAppointments.updateAppointment", id,
                        Input(None, ps, pe, st), NoRowsReturned)

\* useAppointments.updateAppointment(id, input), first await.  With a time in
\* the input: the appointment is looked up in the list (as last fetched: the
\* stored row), and validateAppointmentOverlap runs on the new range, its
\* query ending with any of QueryErrors.  Without one: the update.
useAppointments_updateAppointment(c, clock, id, ps, pe, st) ==
    /\ MayCall
    /\ req[c] = Idle
    /\ IF ps = NoTime /\ pe = NoTime
       THEN /\ useAppointments_update(clock, id, ps, pe, st)
            /\ UNCHANGED <<req, check>>
       ELSE IF ~Exists(id)
       THEN /\ ReturnsFrom(clock, "useAppointments.updateAppointment", id,
                           Input(None, ps, pe, st), <<"Cita no encontrada">>)
            /\ UNCHANGED <<appointments, req, check>>
       ELSE \E queryError \in QueryErrors :
            LET appointment == RowOf(id)
                newStartsAt == IF ps # NoTime THEN ps ELSE appointment.starts_at
                newEndsAt == IF pe # NoTime THEN pe ELSE appointment.ends_at
                overlap == validateAppointmentOverlapCaught(
                                queryError, appointments, newStartsAt, newEndsAt,
                                appointment.doctor_id, id)
            IN  /\ Checks("useAppointments.updateAppointment", queryError, overlap)
                /\ UNCHANGED appointments
                /\ IF overlap.hasOverlap
                   THEN /\ UNCHANGED req
                        /\ ReturnsFrom(clock, "useAppointments.updateAppointment", id,
                                       Input(appointment.doctor_id, ps, pe, st),
                                       HookConflict(Cardinality(
                                            overlap.conflictingAppointments)))
                   ELSE /\ req' = [req EXCEPT ![c] =
                                [op |-> "useAppointments.updateAppointment", id |-> id,
                                 starts_at |-> ps, ends_at |-> pe, status |-> st,
                                 clock |-> clock]]
                        /\ UNCHANGED returned
    /\ UNCHANGED <<nextId, dispatched, mailVars>>

\* updateAppointment(id, input) of the hook called directly.
HookUpdateAppointmentStart(c, id, ps, pe, st) ==
    useAppointments_updateAppointment(c, NoTime, id, ps, pe, st)

\* useAppointments.updateAppointment with a time in the input, second await.
HookUpdateAppointmentWrite(c) ==
    /\ req[c].op = "useAppointments.updateAppointment"
    /\ useAppointments_update(req[c].clock, req[c].id, req[c].starts_at,
                              req[c].ends_at, req[c].status)
    /\ Finish(c)
    /\ UNCHANGED <<nextId, check, dispatched, mailVars>>

\* STATUS_OPTIONS of the edit form the submits choose from.
FormStatuses == {"scheduled", "confirmed", "completed", "cancelled"}

\* EditAppointmentForm: isPastAppointment and canEditDateTime (the date, time
\* and duration inputs are disabled without it).
isPastAppointment(appointment, now) == ~isFutureInArgentina(appointment.starts_at, now)
canEditDateTime(appointment, now) ==
    ~isPastAppointment(appointment, now) /\ appointment.status # "completed"

\* EditAppointmentForm.onSubmit, the rules on the start: the message of the
\* first one that throws.
EditFormError(now, startDate, status) ==
    IF ~isFutureInArgentina(startDate, now) /\ status # "cancelled"
    THEN <<"Solo se pueden editar citas futuras (excepto para cancelar)">>
    ELSE IF ~isValidMedicalHour(startDate)
    THEN <<"La cita debe ser en horario medico (8:00 - 20:00)">>
    ELSE IF ~isWeekday(startDate)
    THEN <<"Las citas solo se pueden agendar de lunes a viernes">>
    ELSE NoError

\* EditAppointmentForm.onSubmit(data) on the appointment the form shows: a rule
\* that throws ends the submit; updateData holds the fields that changed
\* (notesChanged: the notes did); with no change nothing is saved, otherwise
\* updateAppointment(appointment.id, updateData) of the hook is called.
EditAppointmentFormSubmit(c, now, id, s, duration, st, notesChanged) ==
    /\ Exists(id)
    /\ s + duration \in Times
    /\ LET appointment == RowOf(id)
           e == s + duration
           hasTimeChanged == s # appointment.starts_at \/ e # appointment.ends_at
           ps == IF s # appointment.starts_at THEN s ELSE NoTime
           pe == IF e # appointment.ends_at THEN e ELSE NoTime
           pst == IF st # appointment.status THEN st ELSE None
           input == Input(appointment.doctor_id, ps, pe, pst)
           error == EditFormError(now, s, st)
       IN  /\ ~canEditDateTime(appointment, now) => ~hasTimeChanged
           /\ IF error # NoError
              THEN FormRejects(c, now, "EditAppointmentForm.onSubmit", id, input, error)
              ELSE \E validated \in {hasTimeChanged /\ isFutureInArgentina(s, now), FALSE} :
                   LET overlapValidation ==
                           OverlapValidation(validated, s, e, appointment.doctor_id, id)
                   IN  IF overlapValidation.hasOverlap
                       THEN FormRejects(c, now, "EditAppointmentForm.onSubmit", id, input,
                                        HookConflict(Cardinality(
                                            overlapValidation.conflictingAppointments)))
                       ELSE IF ~hasTimeChanged /\ pst = None /\ ~notesChanged
                       THEN FormRejects(c, now, "EditAppointmentForm.onSubmit", id, input,
                                        <<"No hay cambios para guardar">>)
                       ELSE useAppointments_updateAppointment(c, now, id, ps, pe, pst)

\* The input of an operation that takes the id only.
NoInput == Input(None, NoTime, NoTime, None)

\* AppointmentsService.cancelAppointment(id, reason?): update({status: 'cancelled',
\* notes}) where id = ...; the current row is not read, no notification is sent.
CancelAppointment(id) ==
    /\ MayCall
    /\ Exists(id)
    /\ LET new == [RowOf(id) EXCEPT !.status = "cancelled"]
       IN  /\ UpdateAppointmentRow(id, new)
           /\ Returns("cancelAppointment", id, NoInput,
                      UpdateThrows("Error cancelando cita:", id, new))
    /\ UNCHANGED <<nextId, req, check, dispatched, mailVars>>

\* (mutation: a guard rejects an appointment that is already confirmed)
ConfirmAppointment_onlyOnce(id) ==
    /\ MayCall
    /\ Exists(id)
    /\ LET new == [RowOf(id) EXCEPT !.status = "confirmed"]
       IN  IF RowOf(id).status = "confirmed"
           THEN /\ UNCHANGED appointments
                /\ Returns("confirmAppointment", id, NoInput,
                           <<"Error confirmando cita:", "already confirmed">>)
           ELSE /\ UpdateAppointmentRow(id, new)
                /\ Returns("confirmAppointment", id, NoInput,
                           UpdateThrows("Error confirmando cita:", id, new))
    /\ UNCHANGED <<nextId, req, check, dispatched, mailVars>>

\* AppointmentsService.confirmAppointment(id): update({status: 'confirmed'}).
ConfirmAppointment(id) ==
    /\ MayCall
    /\ Exists(id)
    /\ LET new == [RowOf(id) EXCEPT !.status = "confirmed"]
       IN  /\ UpdateAppointmentRow(id, new)
           /\ Returns("confirmAppointment", id, NoInput,
                      UpdateThrows("Error confirmando cita:", id, new))
    /\ UNCHANGED <<nextId, req, check, dispatched, mailVars>>

\* AppointmentsService.completeAppointment(id, notes?): update({status: 'completed',
\* notes}) where id = ..., whatever the row holds.
completeAppointment(clock, id) ==
    /\ MayCall
    /\ Exists(id)
    /\ LET new == [RowOf(id) EXCEPT !.status = "completed"]
       IN  /\ UpdateAppointmentRow(id, new)
           /\ ReturnsFrom(clock, "completeAppointment", id, NoInput,
                          UpdateThrows("Error completando cita:", id, new))
    /\ UNCHANGED <<nextId, req, check, dispatched, mailVars>>

\* completeAppointment(id) called directly.
CompleteAppointment(id) == completeAppointment(NoTime, id)

\* AppointmentsService.markNoShow(id): update({status: 'no-show'}) where id = ... .
markNoShow(clock, id) ==
    /\ MayCall
    /\ Exists(id)
    /\ LET new == [RowOf(id) EXCEPT !.status = "no-show"]
       IN  /\ UpdateAppointmentRow(id, new)
           /\ ReturnsFrom(clock, "markNoShow", id, NoInput,
                          UpdateThrows("Error marcando no-show:", id, new))
    /\ UNCHANGED <<nextId, req, check, dispatched, mailVars>>

\* markNoShow(id) called directly.
MarkNoShow(id) == markNoShow(NoTime, id)

\* AppointmentCard: isUpcoming = new Date(appointment.starts_at) > new Date().
isUpcoming(appointment, now) == appointment.starts_at > now

\* AppointmentCard renders "Marcar Completada" and "No Asistio" when
\* appointment.status === 'confirmed' && !isUpcoming.
OffersCompletion(appointment, now) ==
    appointment.status = "confirmed" /\ ~isUpcoming(appointment, now)

\* DoctorSchedulePage.handleComplete, from the button of the card.
HandleComplete(now, id) ==
    /\ Exists(id)
    /\ OffersCompletion(RowOf(id), now)
    /\ completeAppointment(now, id)

\* DoctorSchedulePage.handleNoShow, from the button of the card.
HandleNoShow(now, id) ==
    /\ Exists(id)
    /\ OffersCompletion(RowOf(id), now)
    /\ markNoShow(now, id)

\* useAppointments.deleteAppointment(id): delete from appointments where id = ...;
\* the row is removed whatever its status (no error when no row has the id).
DeleteAppointment(id) ==
    /\ MayCall
    /\ appointments' = {a \in appointments : a.id # id}
    /\ Returns("deleteAppointment", id, NoInput, NoError)
    /\ UNCHANGED <<nextId, req, check, dispatched, mailVars>>

Init ==
    /\ appointments = {}
    /\ nextId = 1
    /\ req = [c \in Clients |-> Idle]
    /\ check = NoCheck
    /\ returned = Unobserved
    /\ dispatched = 0
    /\ MailIdle

\* The clients that can call an operation: those with no request in flight.
Callers == {c \in Clients : MayCall /\ req[c] = Idle}

Next ==
    \/ \E c \in Callers, d \in Doctors, s \in Times, e \in Times :
            CreateAppointmentCheck(c, d, s, e)
    \/ \E c \in Callers, now \in Times, d \in Doctors, s \in Times,
            duration \in DurationOptions :
            CreateAppointmentFormSubmit(c, now, d, s, duration)
    \/ \E c \in Clients, st \in StatusInputs : CreateAppointmentInsert(c, st)
    \/ \E c \in Callers, d \in Doctors, s \in Times, e \in Times :
            CreateAppointmentSafeCheck(c, d, s, e)
    \/ \E c \in Clients, st \in StatusInputs : CreateAppointmentSafeInsert(c, st)
    \/ \E c \in Callers, id \in Ids, ps \in Times \cup {NoTime}, pe \in Times \cup {NoTime} :
            UpdateAppointmentStart(c, id, ps, pe)
    \/ \E c \in Callers, id \in Ids, s \in Times, e \in Times :
            RescheduleAppointmentStart(c, id, s, e)
    \/ \E c \in Clients : UpdateAppointmentCheck(c)
    \/ \E c \in Clients, st \in StatusInputs \cup {"rescheduled"} :
            UpdateAppointmentWrite(c, st)
    \/ \E id \in Ids, st \in StatusInputs : UpdateAppointmentStatus(id, st)
    \/ \E id \in Ids : CancelAppointment(id)
    \/ \E id \in Ids : ConfirmAppointment(id)
    \/ \E id \in Ids : CompleteAppointment(id)
    \/ \E id \in Ids : MarkNoShow(id)
    \/ \E id \in Ids : DeleteAppointment(id)
    \/ \E c \in Callers, id \in Ids, ps \in Times \cup {NoTime}, pe \in Times \cup {NoTime},
            st \in StatusInputs :
            HookUpdateAppointmentStart(c, id, ps, pe, st)
    \/ \E c \in Clients : HookUpdateAppointmentWrite(c)
    \/ \E c \in Callers, now \in Times, id \in Ids, s \in Times,
            duration \in DurationOptions, st \in FormStatuses, notesChanged \in BOOLEAN :
            EditAppointmentFormSubmit(c, now, id, s, duration, st, notesChanged)
    \/ \E now \in Times, id \in Ids : HandleComplete(now, id)
    \/ \E now \in Times, id \in Ids : HandleNoShow(now, id)

Spec == Init /\ [][Next]_apptVars

(***************************************************************************)
(* One operation, observed.  The table starts as any small table the       *)
(* constraints accept; one lifecycle operation is called with any input    *)
(* and runs to its end; returned then holds what its caller sees.          *)
(***************************************************************************)
\* Tables of n rows with ids 1..n and statuses scheduled, confirmed, completed
\* or cancelled that the constraints accept.
LifecycleTablesOf(n) ==
    {t \in {{Row(id, f[id][1], f[id][2][1], f[id][2][2], f[id][3]) : id \in 1..n} :
                f \in [1..n -> Doctors \X {<<s, e>> \in Times \X Times : s < e}
                                      \X {"scheduled", "confirmed", "completed",
                                          "cancelled"}]} :
        TableAccepts(t)}

LifecycleInit ==
    /\ appointments \in UNION {LifecycleTablesOf(n) : n \in 0..(MaxAppointments - 1)}
    /\ nextId = Cardinality(appointments) + 1
    /\ req = [c \in Clients |-> Idle]
    /\ check = NoCheck
    /\ returned = NoCall
    /\ dispatched = 0
    /\ MailIdle

SpecLifecycle == LifecycleInit /\ [][Next]_apptVars

(***************************************************************************)
(* Two concurrent booking requests.  The table starts as any small table   *)
(* the constraints accept; each of the two requests runs its pre-check and *)
(* then its insert, in any interleaving, and keeps its outcome.            *)
(***************************************************************************)
MaxStoredRows == 1

Racers == {"r1", "r2"}

ValidRanges == {<<s, e>> \in Times \X Times : s < e}

\* Tables of n rows with ids 1..n and statuses scheduled or cancelled that the
\* constraints accept.
TablesOf(n) ==
    {t \in {{Row(id, f[id][1], f[id][2][1], f[id][2][2], f[id][3]) : id \in 1..n} :
                f \in [1..n -> Doctors \X ValidRanges \X {"scheduled", "cancelled"}]} :
        TableAccepts(t)}

StoredTables == UNION {TablesOf(n) : n \in 0..MaxStoredRows}

RaceInit ==
    /\ appointments \in StoredTables
    /\ nextId = Cardinality(appointments) + 1
    /\ req \in [Racers -> {[op |-> op, pc |-> "check", doctor_id |-> d,
                            starts_at |-> r[1], ends_at |-> r[2], result |-> None] :
                                op \in CreateOps, d \in Doctors, r \in ValidRanges}]
    /\ check = NoCheck
    /\ returned = Unobserved
    /\ dispatched = 0
    /\ MailIdle

\* The pre-check of a create: validateAppointmentOverlap in the hook, the
\* exists(...) test in create_appointment_safe.
CreatePreCheckConflict(op, table, d, s, e) ==
    IF op = "createAppointment"
    THEN validateAppointmentOverlap(table, s, e, d, NoId).hasOverlap
    ELSE check_appointment_overlap(table, d, s, e) # {}

\* First await of a racing create: a detected overlap ends it with the
\* schedule-conflict error.
RaceCheck(r) ==
    /\ req[r].pc = "check"
    /\ IF CreatePreCheckConflict(req[r].op, appointments, req[r].doctor_id,
                                 req[r].starts_at, req[r].ends_at)
       THEN req' = [req EXCEPT ![r].pc = "done", ![r].result = "conflict"]
       ELSE req' = [req EXCEPT ![r].pc = "insert"]
    /\ UNCHANGED <<appointments, nextId, check, returned, dispatched, mailVars>>

\* Second await of a racing create: the insert; a rejected insert surfaces as
\* an error carrying the store's message.
RaceInsert(r) ==
    /\ req[r].pc = "insert"
    /\ LET row == Row(nextId, req[r].doctor_id, req[r].starts_at, req[r].ends_at,
                      "scheduled")
       IN  /\ InsertAppointment(row)
           /\ req' = [req EXCEPT ![r].pc = "done",
                                 ![r].result = IF TableAccepts(appointments \cup {row})
                                               THEN "ok" ELSE "error"]
    /\ UNCHANGED <<check, returned, dispatched, mailVars>>

RaceNext == \E r \in Racers : RaceCheck(r) \/ RaceInsert(r)

SpecRace == RaceInit /\ [][RaceNext]_apptVars

(***************************************************************************)
(* Claims: the table invariant and the booking race                        *)
(***************************************************************************)
Intersect(s1, e1, s2, e2) == s1 < e2 /\ s2 < e1

RaceDone == \A r \in Racers : req[r].pc = "done"

RaceSameSlot ==
    /\ req["r1"].doctor_id = req["r2"].doctor_id
    /\ Intersect(req["r1"].starts_at, req["r1"].ends_at,
                 req["r2"].starts_at, req["r2"].ends_at)

Succeeded == {r \in Racers : req[r].result = "ok"}

\* The rows stored before the two requests started (neither request wrote them).
StoredBefore == {a \in appointments : a.id <= Cardinality(appointments) - Cardinality(Succeeded)}

\* Request r's range intersects a row of its doctor that was stored before.
Blocked(r) ==
    \E a \in StoredBefore :
        /\ a.doctor_id = req[r].doctor_id
        /\ Intersect(a.starts_at, a.ends_at, req[r].starts_at, req[r].ends_at)

\* C2 (as stated): two concurrent creates for the same doctor with intersecting
\* ranges end with exactly one success and one failure.
C2_ExactlyOneSucceeds ==
    (RaceDone /\ RaceSameSlot) => Cardinality(Succeeded) = 1

\* C2 (amended): of two concurrent creates for the same doctor with intersecting
\* ranges at most one succeeds; exactly one succeeds when at least one of the two
\* ranges intersects no appointment already stored for that doctor (of any
\* status), and both fail when each range intersects one.
C2_AtMostOneSucceeds ==
    (RaceDone /\ RaceSameSlot) =>
        /\ Cardinality(Succeeded) <= 1
        /\ (\E r \in Racers : ~Blocked(r)) => Cardinality(Succeeded) = 1
        /\ (\A r \in Racers : Blocked(r)) => Cardinality(Succeeded) = 0

\* Both pre-checks passed before either insert, the slot was free: one insert
\* was committed and the other rejected by the store.
C2_Witness ==
    /\ RaceDone /\ RaceSameSlot
    /\ \A r \in Racers : ~Blocked(r)
    /\ \E r \in Racers : req[r].result = "ok"
    /\ \E r \in Racers : req[r].result = "error"

(***************************************************************************)
(* The overlap checks on their own: the table is any small table the       *)
(* constraints accept, and a check is called with any doctor, any          *)
(* non-empty candidate range and any excludeId.                            *)
(***************************************************************************)
MaxCheckedRows == 2

CheckedTables == UNION {TablesOf(n) : n \in 0..MaxCheckedRows}

OverlapInit ==
    /\ appointments \in CheckedTables
    /\ nextId = Cardinality(appointments) + 1
    /\ req = [c \in Clients |-> Idle]
    /\ check = NoCheck
    /\ returned = Unobserved
    /\ dispatched = 0
    /\ MailIdle

Called(op, d, s, e, x, result) ==
    [op |-> op, doctorId |-> d, startsAt |-> s, endsAt |-> e, excludeId |-> x,
     hasOverlap |-> result.hasOverlap,
     conflictingAppointments |-> result.conflictingAppointments]

\* AppointmentsService.checkOverlap(doctorId, startsAt, endsAt, excludeId?).
\* One call per behaviour: the check reads only the table, which stays as it is.
CheckOverlap(d, s, e, x) ==
    /\ check = NoCheck
    /\ check' = Called("checkOverlap", d, s, e, x,
                       checkOverlap(appointments, d, s, e, x))
    /\ UNCHANGED <<appointments, nextId, req, returned, dispatched, mailVars>>

\* useAppointments.validateAppointmentOverlap(startsAt, endsAt, doctorId, excludeId?)
ValidateAppointmentOverlap(d, s, e, x) ==
    /\ check = NoCheck
    /\ check' = Called("validateAppointmentOverlap", d, s, e, x,
                       validateAppointmentOverlap(appointments, s, e, d, x))
    /\ UNCHANGED <<appointments, nextId, req, returned, dispatched, mailVars>>

OverlapNext ==
    \E d \in Doctors, r \in ValidRanges, x \in 1..MaxCheckedRows \cup {NoId} :
        \/ CheckOverlap(d, r[1], r[2], x)
        \/ ValidateAppointmentOverlap(d, r[1], r[2], x)

SpecOverlap == OverlapInit /\ [][OverlapNext]_apptVars

Checked == check.op # "none"

\* Row b's range intersects the candidate range of the latest check.
IntersectsCandidate(b) ==
    check.startsAt < b.ends_at /\ b.starts_at < check.endsAt

Reported(b) == b.id \in check.conflictingAppointments

\* C3: a check reports an appointment [b1,b2) of the doctor (one it considers:
\* not cancelled, not the excluded id) as conflicting with the candidate
\* [a1,a2) exactly when a1 < b2 and b1 < a2, so that an appointment ending at
\* the candidate's start, or starting at its end, is not reported; it reports
\* no appointment of another doctor.
C3_HalfOpenOverlap ==
    Checked =>
        \A b \in appointments :
            /\ (b.doctor_id = check.doctorId /\ b.status # "cancelled"
                    /\ b.id # check.excludeId)
                => (Reported(b) <=> IntersectsCandidate(b))
            /\ b.doctor_id # check.doctorId => ~Reported(b)

\* One appointment ends where the candidate starts and is not reported, while
\* another one of the same doctor is.
C3_Witness ==
    /\ Checked
    /\ check.hasOverlap
    /\ \E b \in appointments :
        /\ b.doctor_id = check.doctorId /\ b.status # "cancelled"
        /\ b.ends_at = check.startsAt
        /\ ~Reported(b)

\* C4: checkOverlap never counts a cancelled appointment as a conflict.
C4_CancelledNeverConflicts ==
    (Checked /\ check.op = "checkOverlap") =>
        \A b \in appointments : b.status = "cancelled" => ~Reported(b)

\* C5: with excludeId = X, X is never among the conflicts; every other live
\* appointment of the doctor that intersects the candidate is still reported;
\* and when no appointment of the doctor other than X intersects the candidate,
\* hasOverlap is false.
C5_ExcludesOwnSlot ==
    (Checked /\ check.excludeId # NoId) =>
        /\ check.excludeId \notin check.conflictingAppointments
        /\ \A b \in appointments :
            (b.doctor_id = check.doctorId /\ b.status # "cancelled"
                /\ b.id # check.excludeId /\ IntersectsCandidate(b))
            => Reported(b)
        /\ (\A b \in appointments :
                (b.doctor_id = check.doctorId /\ IntersectsCandidate(b))
                => b.id = check.excludeId)
            => ~check.hasOverlap

\* A reschedule of X validated against X's own unmodified slot: X intersects the
\* candidate and nothing else does, and the check finds no overlap.
C5_Witness ==
    /\ Checked
    /\ check.op = "checkOverlap"
    /\ \E b \in appointments :
        /\ b.id = check.excludeId
        /\ b.doctor_id = check.doctorId /\ b.status # "cancelled"
        /\ IntersectsCandidate(b)
    /\ ~check.hasOverlap
    /\ Cardinality(appointments) > 1

(***************************************************************************)
(* Claims: lifecycle                                                       *)
(***************************************************************************)
\* C6: once an appointment's status is completed, cancelled or no-show, no
\* operation changes its status again.
C6_TerminalStatusIsFinal ==
    [][\A a \in appointments : a.status \in TerminalStatus =>
            \A b \in appointments' : b.id = a.id => b.status = a.status]_apptVars

\* A step stored a new appointment.
StepCreated == \E b \in appointments' : ~Exists(b.id)

\* A step turned a live appointment into a cancelled one.
StepCancelled ==
    \E a \in appointments : \E b \in appointments' :
        b.id = a.id /\ a.status # "cancelled" /\ b.status = "cancelled"

\* A step moved an appointment to another time range.
StepRescheduled ==
    \E a \in appointments : \E b \in appointments' :
        b.id = a.id /\ (b.starts_at # a.starts_at \/ b.ends_at # a.ends_at)

\* C7: each successful create, cancel and reschedule invokes the notification
\* dispatcher exactly once, as part of the operation.
C7_NotifiesOnce ==
    [][(StepCreated \/ StepCancelled \/ StepRescheduled)
            => dispatched' = dispatched + 1]_apptVars

(***************************************************************************)
(* EmailService.send: the retry loop.  One action per provider call and    *)
(* per delay.                                                              *)
(***************************************************************************)
\* (mutation: off-by-one loop bound, attempt < retryAttempts)
LoopContinues_strict(a, n) == a < n

\* for (let attempt = 1; attempt <= this.config.retryAttempts; attempt++)
LoopContinues(a, n) == a <= n

\* A message is the sequence of its parts, each a string; the literal text between
\* two interpolations is one part.
\* `Failed to send email after ${retryAttempts} attempts: ${lastError?.message}`
SendFailure(n, message) ==
    <<"Failed to send email after", ToString(n), "attempts", message>>

\* Entering the loop at attempt a: the next provider call, or the throw after the loop.
EnterLoop(a, lastMessage) ==
    IF LoopContinues(a, retryAttempts)
    THEN /\ sendPc' = "calling"
         /\ attempt' = a
         /\ outcome' = outcome
    ELSE /\ sendPc' = "rejected"
         /\ attempt' = a
         /\ outcome' = [error |-> SendFailure(retryAttempts, lastMessage)]

\* send(options) is called: lastError is undefined, the loop starts at attempt 1.
StartSend ==
    /\ providerCalls' = <<>>
    /\ delays' = <<>>
    /\ lastError' = Undefined
    /\ EnterLoop(1, Undefined)

\* (mutation: the response is not returned, the loop goes on)
ProviderResolves_noReturn(r) ==
    /\ sendPc = "calling"
    /\ providerCalls' = Append(providerCalls, [response |-> r])
    /\ EnterLoop(attempt + 1, lastError)
    /\ UNCHANGED <<retryAttempts, lastError, delays>>

\* await provider.send(normalized) resolves: send returns the response.
ProviderResolves(r) ==
    /\ sendPc = "calling"
    /\ providerCalls' = Append(providerCalls, [response |-> r])
    /\ sendPc' = "resolved"
    /\ outcome' = [response |-> r]
    /\ UNCHANGED <<retryAttempts, attempt, lastError, delays>>

\* await provider.send(normalized) throws: the error is kept; a delay follows
\* unless this was the last attempt.
ProviderRejects(m) ==
    /\ sendPc = "calling"
    /\ providerCalls' = Append(providerCalls, [error |-> m])
    /\ lastError' = m
    /\ IF attempt < retryAttempts
       THEN /\ sendPc' = "delay"
            /\ UNCHANGED <<attempt, outcome>>
       ELSE EnterLoop(attempt + 1, m)
    /\ UNCHANGED <<retryAttempts, delays>>

\* (mutation: the delay does not grow, this.delay(retryDelayMs))
DelayElapsed_fixed ==
    /\ sendPc = "delay"
    /\ delays' = Append(delays, RetryDelayMs)
    /\ EnterLoop(attempt + 1, lastError)
    /\ UNCHANGED <<retryAttempts, providerCalls, lastError>>

\* await this.delay(retryDelayMs * attempt) is over: the next iteration.
DelayElapsed ==
    /\ sendPc = "delay"
    /\ delays' = Append(delays, RetryDelayMs * attempt)
    /\ EnterLoop(attempt + 1, lastError)
    /\ UNCHANGED <<retryAttempts, providerCalls, lastError>>

\* A direct call of emailService.send(options).
Send ==
    /\ sendPc = "idle"
    /\ StartSend
    /\ UNCHANGED <<retryAttempts, tableVars, dispatched, batch, notify>>

SendStep ==
    /\ batch = NoBatch
    /\ notify = NoNotify
    /\ \/ \E r \in Responses : ProviderResolves(r)
       \/ \E m \in ErrorMessages : ProviderRejects(m)
       \/ DelayElapsed
    /\ UNCHANGED <<tableVars, dispatched, batch, notify>>

\* The service is constructed with any retryAttempts of 0..MaxRetryAttempts.
SendInit ==
    /\ appointments = {}
    /\ nextId = 1
    /\ req = [c \in Clients |-> Idle]
    /\ check = NoCheck
    /\ returned = Unobserved
    /\ dispatched = 0
    /\ retryAttempts \in 0..MaxRetryAttempts
    /\ sendPc = "idle"
    /\ attempt = 0
    /\ providerCalls = <<>>
    /\ lastError = Undefined
    /\ outcome = Undefined
    /\ delays = <<>>
    /\ batch = NoBatch
    /\ notify = NoNotify

SendNext == Send \/ SendStep

SpecSend == SendInit /\ [][SendNext]_apptVars

\* Every provider call eventually resolves or rejects, and the timer of every
\* delay fires: a send that can take a step takes one.
SpecSendSettling == SpecSend /\ WF_apptVars(SendStep)

SendDone == sendPc \in {"resolved", "rejected"}

IsError(call) == "error" \in DOMAIN call
IsResponse(call) == "response" \in DOMAIN call

AllCallsThrew == \A i \in 1..Len(providerCalls) : IsError(providerCalls[i])

\* C8: with retryAttempts = N and a provider whose send always throws, send
\* calls the provider exactly N times and then rejects with 'Failed to send
\* email after N attempts: <message of the last provider error>'.
C8_RetryExhaustion ==
    (SendDone /\ AllCallsThrew) =>
        /\ Len(providerCalls) = retryAttempts
        /\ sendPc = "rejected"
        /\ retryAttempts >= 1 =>
                outcome = [error |-> SendFailure(retryAttempts,
                                        providerCalls[retryAttempts].error)]

\* Three attempts all threw, the last with another message than the first.
C8_Witness ==
    /\ sendPc = "rejected"
    /\ retryAttempts = 3
    /\ Len(providerCalls) = 3
    /\ providerCalls[1].error # providerCalls[3].error

\* C9: send resolves with the response of the first provider call that
\* succeeds and makes no provider call after it: a successful call is the last
\* call, every call before it threw, it is at most call number retryAttempts,
\* and send has resolved with its response.
C9_FirstSuccessReturns ==
    \A i \in 1..Len(providerCalls) :
        IsResponse(providerCalls[i]) =>
            /\ i = Len(providerCalls)
            /\ i <= retryAttempts
            /\ \A j \in 1..(i - 1) : IsError(providerCalls[j])
            /\ sendPc = "resolved"
            /\ outcome = [response |-> providerCalls[i].response]

\* Two calls threw and the third succeeded.
C9_Witness ==
    /\ sendPc = "resolved"
    /\ Len(providerCalls) = 3
    /\ IsError(providerCalls[1]) /\ IsError(providerCalls[2])
    /\ outcome = [response |-> "queued"]

(***************************************************************************)
(* sendBatchReminders: for each item of the list, in order,                 *)
(* sendReminderEmail inside try/catch.                                     *)
(***************************************************************************)
MaxBatch == 3

\* What the synchronous part of sendReminderEmail (reminderTemplate,
\* generateReminderICS) can do before the send: succeed or throw.
GenerationErrors == {"Missing required field for ICS generation"}

\* `Failed to send reminder email: ${error.message}` (the catch of sendReminderEmail)
ReminderFailure(message) == <<"Failed to send reminder email">> \o message

\* `Appointment ${item.appointment.id}: ${error.message}` (the catch of the batch)
BatchError(id, message) == <<"Appointment", ToString(id)>> \o message

\* The batch is called with the appointments 1..k, in that order.
BatchInit ==
    /\ appointments = {}
    /\ nextId = 1
    /\ req = [c \in Clients |-> Idle]
    /\ check = NoCheck
    /\ returned = Unobserved
    /\ dispatched = 0
    /\ retryAttempts \in 0..MaxRetryAttempts
    /\ sendPc = "idle"
    /\ attempt = 0
    /\ providerCalls = <<>>
    /\ lastError = Undefined
    /\ outcome = Undefined
    /\ delays = <<>>
    /\ notify = NoNotify
    /\ \E k \in 0..MaxBatch :
        batch = [pc |-> "loop", items |-> [i \in 1..k |-> i], i |-> 1,
                 successful |-> 0, failed |-> 0, errors |-> <<>>]

BatchRunning == batch # NoBatch

\* (mutation: the catch of the loop body is missing, the error escapes)
ItemFailed_uncaught(message) ==
    batch' = [batch EXCEPT !.pc = "rejected"]

\* catch (error) { results.failed++; results.errors.push(...) }, then the next item.
ItemFailed(message) ==
    batch' = [batch EXCEPT !.failed = @ + 1,
                           !.errors = Append(@, BatchError(batch.items[batch.i], message)),
                           !.i = @ + 1,
                           !.pc = "loop"]

\* results.successful++, then the next item.
ItemSucceeded ==
    batch' = [batch EXCEPT !.successful = @ + 1, !.i = @ + 1, !.pc = "loop"]

\* Loop body, up to the first await: sendReminderEmail is invoked for the item;
\* the template or the ICS generation may throw, else emailService.send starts.
BatchItem(gen) ==
    /\ BatchRunning
    /\ batch.pc = "loop"
    /\ batch.i <= Len(batch.items)
    /\ dispatched' = dispatched + 1
    /\ IF gen = "ok"
       THEN /\ StartSend
            /\ batch' = [batch EXCEPT !.pc = "awaiting"]
            /\ UNCHANGED retryAttempts
       ELSE /\ ItemFailed(ReminderFailure(<<gen>>))
            /\ UNCHANGED sendVars
    /\ UNCHANGED <<tableVars, notify>>

\* The provider calls and delays of the send the batch awaits.
BatchSendStep ==
    /\ BatchRunning
    /\ batch.pc = "awaiting"
    /\ \/ \E r \in Responses : ProviderResolves(r)
       \/ \E m \in ErrorMessages : ProviderRejects(m)
       \/ DelayElapsed
    /\ UNCHANGED <<tableVars, dispatched, batch, notify>>

\* (mutation: the loop does not await the send: it goes on to the next item
\* while the call is in flight)
BatchItemSettled_notAwaited ==
    /\ BatchRunning
    /\ batch.pc = "awaiting"
    /\ ItemSucceeded
    /\ UNCHANGED <<sendVars, tableVars, dispatched, notify>>

\* await sendReminderEmail(...) settles: count the item.
BatchItemSettled ==
    /\ BatchRunning
    /\ batch.pc = "awaiting"
    /\ SendDone
    /\ IF sendPc = "resolved"
       THEN ItemSucceeded
       ELSE ItemFailed(ReminderFailure(outcome.error))
    /\ sendPc' = "idle"
    /\ UNCHANGED <<retryAttempts, attempt, providerCalls, lastError, outcome, delays>>
    /\ UNCHANGED <<tableVars, dispatched, notify>>

\* After the last item: return results.
BatchReturn ==
    /\ BatchRunning
    /\ batch.pc = "loop"
    /\ batch.i > Len(batch.items)
    /\ batch' = [batch EXCEPT !.pc = "done"]
    /\ UNCHANGED <<tableVars, dispatched, sendVars, notify>>

BatchNext ==
    \/ \E gen \in {"ok"} \cup GenerationErrors : BatchItem(gen)
    \/ BatchSendStep
    \/ BatchItemSettled
    \/ BatchReturn

SpecBatch == BatchInit /\ [][BatchNext]_apptVars

\* C10: sendBatchReminders attempts a reminder send for every item of its list
\* whatever failed before, never rejects, and returns successful + failed =
\* number of items and errors.length = failed.
C10_BatchCountsEveryItem ==
    BatchRunning =>
        /\ batch.pc # "rejected"
        /\ batch.successful + batch.failed = batch.i - 1
        /\ Len(batch.errors) = batch.failed
        /\ batch.pc = "done" =>
            /\ dispatched = Len(batch.items)
            /\ batch.successful + batch.failed = Len(batch.items)

\* Three items, the second failed and the first and third were sent.
C10_Witness ==
    /\ BatchRunning
    /\ batch.pc = "done"
    /\ Len(batch.items) = 3
    /\ batch.successful = 2 /\ batch.failed = 1
    /\ batch.errors[1][2] = ToString(2)

\* The position in the list of the item an errors entry names.
ErrorItem(entry) ==
    CHOOSE i \in 1..Len(batch.items) : ToString(batch.items[i]) = entry[2]

\* The errors list names failed items only, in input order.
ErrorsInInputOrder ==
    BatchRunning =>
        /\ Len(batch.errors) = batch.failed
        /\ \A i \in 1..Len(batch.errors) : \A j \in 1..Len(batch.errors) :
                i < j => ErrorItem(batch.errors[i]) < ErrorItem(batch.errors[j])

\* The send awaited for the current item has rejected and the batch records it.
StepRecordsRejectedSend ==
    /\ BatchRunning
    /\ batch.pc = "awaiting"
    /\ sendPc = "rejected"
    /\ batch'.pc = "loop"

\* C11: the errors list of sendBatchReminders has one entry per failed item, in
\* input order, and the entry of an item whose send rejected with message m
\* contains 'Appointment <id>: <m>'.
C11_ErrorEntryNamesSendError ==
    /\ []ErrorsInInputOrder
    /\ [][StepRecordsRejectedSend =>
            Contains(batch'.errors[Len(batch'.errors)],
                     <<"Appointment", ToString(batch.items[batch.i])>> \o outcome.error)]_apptVars

(***************************************************************************)
(* ICSGenerator and the ics-email attachments.  A calendar text is the     *)
(* record of the property lines the claims read (METHOD, UID, SEQUENCE,    *)
(* STATUS); an attachment holds the calendar text its base64 content       *)
(* encodes.                                                                *)
(***************************************************************************)
\* uid: `${appointment.id}@autamedica.com`
AppointmentUID(appointment) == <<ToString(appointment.id), "@autamedica.com">>

\* ICSGenerator.generateICS(event): METHOD:REQUEST is a fixed line of every
\* calendar; UID, STATUS and SEQUENCE come from the event.
generateICS(event) ==
    [METHOD |-> "REQUEST",
     UID |-> event.uid,
     STATUS |-> event.status,
     SEQUENCE |-> event.sequence]

\* ICSGenerator.generateAppointmentICS
generateAppointmentICS(appointment) ==
    generateICS([uid |-> AppointmentUID(appointment),
                 sequence |-> 0,
                 status |-> IF appointment.status = "confirmed"
                            THEN "CONFIRMED" ELSE "TENTATIVE"])

\* ICSGenerator.generateCancellationICS
ICSGenerator_generateCancellationICS(appointment) ==
    generateICS([uid |-> AppointmentUID(appointment),
                 sequence |-> 1,
                 status |-> "CANCELLED"])

\* ICSGenerator.generateRescheduleICS
ICSGenerator_generateRescheduleICS(appointment) ==
    generateICS([uid |-> AppointmentUID(appointment),
                 sequence |-> 2,
                 status |-> "CONFIRMED"])

\* contentType: `text/calendar; charset=utf-8; method=${method}`, as its media
\* type and parameters.
ContentType(method) == [type |-> "text/calendar", charset |-> "utf-8", method |-> method]

\* ics-email generateConfirmationICS(options)
generateConfirmationICS(appointment) ==
    [filename |-> <<"cita_", ToString(appointment.id), ".ics">>,
     content |-> generateAppointmentICS(appointment),
     contentType |-> ContentType("REQUEST")]

\* ics-email generateCancellationICS(options)
generateCancellationICS(appointment) ==
    [filename |-> <<"cancelacion_", ToString(appointment.id), ".ics">>,
     content |-> ICSGenerator_generateCancellationICS(appointment),
     contentType |-> ContentType("CANCEL")]

\* ics-email generateRescheduleICS(options)
generateRescheduleICS(appointment) ==
    [filename |-> <<"reprogramacion_", ToString(appointment.id), ".ics">>,
     content |-> ICSGenerator_generateRescheduleICS(appointment),
     contentType |-> ContentType("REQUEST")]

\* ics-email generateReminderICS(options): the calendar of the confirmation.
generateReminderICS(appointment) ==
    [filename |-> <<"recordatorio_", ToString(appointment.id), ".ics">>,
     content |-> generateAppointmentICS(appointment),
     contentType |-> ContentType("PUBLISH")]

ICSTypes == {"confirmation", "cancellation", "reschedule", "reminder"}

\* createICSAttachment(type, options), with oldStartDate and oldEndDate given.
createICSAttachment(type, appointment) ==
    CASE type = "confirmation" -> generateConfirmationICS(appointment)
      [] type = "cancellation" -> generateCancellationICS(appointment)
      [] type = "reschedule" -> generateRescheduleICS(appointment)
      [] type = "reminder" -> generateReminderICS(appointment)

(***************************************************************************)
(* The appointment e-mails: sendConfirmationEmail, sendCancellationEmail,  *)
(* sendRescheduleEmail.  Each runs template and ICS generation, then the   *)
(* patient send and, for confirmation and cancellation, the doctor copy;   *)
(* every send is an EmailService.send with its retry loop.                 *)
(***************************************************************************)
NotifyKinds == {"confirmation", "cancellation", "reschedule"}

\* doctor.email and patient.email of the options (a doctor may have none).
DoctorEmails == {"", "garcia@clinic.com", "juan@email.com"}
PatientEmails == {"juan@email.com"}

\* What confirmationTemplate / cancellationTemplate and the ICS generation can
\* throw.
NotifyGenerationErrors == {"MJML compilation error", "ICS generation error"}

\* `Failed to send confirmation email: ${error.message}` and its siblings.
NotifyFailure(kind, message) ==
    <<CASE kind = "confirmation" -> "Failed to send confirmation email"
        [] kind = "cancellation" -> "Failed to send cancellation email"
        [] kind = "reschedule" -> "Failed to send reschedule email">> \o message

\* The attachment each function generates.
NotifyAttachment(kind, appointment) ==
    CASE kind = "confirmation" -> generateConfirmationICS(appointment)
      [] kind = "cancellation" -> generateCancellationICS(appointment)
      [] kind = "reschedule" -> generateConfirmationICS(appointment)

\* (mutation: the doctor copy is sent whatever the two addresses are)
SendsDoctorCopy_always(n) ==
    n.kind \in {"confirmation", "cancellation"}

\* if (doctor.email && doctor.email !== patient.email); sendRescheduleEmail has
\* no doctor copy.
SendsDoctorCopy(n) ==
    /\ n.kind \in {"confirmation", "cancellation"}
    /\ n.doctorEmail # ""
    /\ n.doctorEmail # n.patientEmail

\* The doctor copy of a confirmation carries the attachment, that of a
\* cancellation has no attachments.
DoctorCopyAttachments(n) ==
    IF n.kind = "confirmation"
    THEN <<NotifyAttachment(n.kind, n.appointment)>>
    ELSE <<>>

\* (mutation: the catch rethrows the error as it is)
NotifyRejected_unwrapped(n, message) ==
    [n EXCEPT !.pc = "rejected", !.error = message]

\* catch (error) { throw new Error(`Failed to send ... email: ${error.message}`) }
NotifyRejected(n, message) ==
    [n EXCEPT !.pc = "rejected", !.error = NotifyFailure(n.kind, message)]

NotifyRunning == notify # NoNotify

\* One of the three functions is called with any options.
NotifyInit ==
    /\ appointments = {}
    /\ nextId = 1
    /\ req = [c \in Clients |-> Idle]
    /\ check = NoCheck
    /\ returned = Unobserved
    /\ dispatched = 0
    /\ retryAttempts \in 0..MaxRetryAttempts
    /\ sendPc = "idle"
    /\ attempt = 0
    /\ providerCalls = <<>>
    /\ lastError = Undefined
    /\ outcome = Undefined
    /\ delays = <<>>
    /\ batch = NoBatch
    /\ \E kind \in NotifyKinds, id \in Ids, st \in {"scheduled", "confirmed", "cancelled"},
          de \in DoctorEmails, pe \in PatientEmails :
        notify = [kind |-> kind, pc |-> "called",
                  appointment |-> [id |-> id, status |-> st],
                  doctorEmail |-> de, patientEmail |-> pe,
                  sends |-> <<>>, error |-> <<>>]

\* The try block up to its first await: the template and the ICS attachment
\* are generated (either may throw), then emailService.send is called for the
\* patient.
NotifyGenerate(gen) ==
    /\ NotifyRunning
    /\ notify.pc = "called"
    /\ IF gen = "ok"
       THEN /\ StartSend
            /\ notify' = [notify EXCEPT
                    !.pc = "patient",
                    !.sends = Append(@, [to |-> "patient",
                        attachments |-> <<NotifyAttachment(notify.kind, notify.appointment)>>])]
            /\ UNCHANGED retryAttempts
       ELSE /\ notify' = NotifyRejected(notify, <<gen>>)
            /\ UNCHANGED sendVars
    /\ UNCHANGED <<tableVars, dispatched, batch>>

\* The provider calls and delays of the send the function awaits.
NotifySendStep ==
    /\ NotifyRunning
    /\ notify.pc \in {"patient", "doctor"}
    /\ \/ \E r \in Responses : ProviderResolves(r)
       \/ \E m \in ErrorMessages : ProviderRejects(m)
       \/ DelayElapsed
    /\ UNCHANGED <<tableVars, dispatched, batch, notify>>

\* await emailService.send({to: patient ...}) settles: a rejection goes to the
\* catch; else the doctor copy is sent when there is one to send.
NotifyPatientSettled ==
    /\ NotifyRunning
    /\ notify.pc = "patient"
    /\ SendDone
    /\ IF sendPc = "rejected"
       THEN /\ notify' = NotifyRejected(notify, outcome.error)
            /\ UNCHANGED sendVars
       ELSE IF SendsDoctorCopy(notify)
            THEN /\ StartSend
                 /\ notify' = [notify EXCEPT
                        !.pc = "doctor",
                        !.sends = Append(@, [to |-> "doctor",
                            attachments |-> DoctorCopyAttachments(notify)])]
                 /\ UNCHANGED retryAttempts
            ELSE /\ notify' = [notify EXCEPT !.pc = "resolved"]
                 /\ UNCHANGED sendVars
    /\ UNCHANGED <<tableVars, dispatched, batch>>

\* await emailService.send({to: doctor ...}) settles: a rejection goes to the
\* same catch as any other error of the try block.
NotifyDoctorSettled ==
    /\ NotifyRunning
    /\ notify.pc = "doctor"
    /\ SendDone
    /\ IF sendPc = "rejected"
       THEN notify' = NotifyRejected(notify, outcome.error)
       ELSE notify' = [notify EXCEPT !.pc = "resolved"]
    /\ UNCHANGED <<tableVars, dispatched, batch, sendVars>>

NotifyNext ==
    \/ \E gen \in {"ok"} \cup NotifyGenerationErrors : NotifyGenerate(gen)
    \/ NotifySendStep
    \/ NotifyPatientSettled
    \/ NotifyDoctorSettled

SpecNotify == NotifyInit /\ [][NotifyNext]_apptVars

NotifySettled == NotifyRunning /\ notify.pc \in {"resolved", "rejected"}

Recipients == [i \in 1..Len(notify.sends) |-> notify.sends[i].to]

(***************************************************************************)
(* Claims: the appointment e-mails                                         *)
(***************************************************************************)
\* The function resolved: every send it made succeeded.
EverySendSucceeded ==
    /\ NotifyRunning
    /\ notify.pc = "resolved"
    /\ notify.kind \in {"confirmation", "cancellation"}

\* C12 (as stated): when every send succeeds, sendConfirmationEmail and
\* sendCancellationEmail make exactly two sends (patient, then doctor) if the
\* doctor's email differs from the patient's, and exactly one (patient) if the
\* two are equal.
C12_TwoSendsIffEmailsDiffer ==
    EverySendSucceeded =>
        IF notify.doctorEmail # notify.patientEmail
        THEN Recipients = <<"patient", "doctor">>
        ELSE Recipients = <<"patient">>

\* C12 (amended): when every send succeeds, sendConfirmationEmail and
\* sendCancellationEmail make exactly two sends (patient, then doctor) if the
\* doctor's email is not empty and differs from the patient's, and exactly one
\* (patient only) otherwise.
C12_TwoSendsIffDoctorHasOtherEmail ==
    EverySendSucceeded =>
        IF notify.doctorEmail # "" /\ notify.doctorEmail # notify.patientEmail
        THEN Recipients = <<"patient", "doctor">>
        ELSE Recipients = <<"patient">>

\* A cancellation whose patient send and doctor copy both went out.
C12_Witness ==
    /\ EverySendSucceeded
    /\ notify.kind = "cancellation"
    /\ Recipients = <<"patient", "doctor">>

\* C13: if the patient send of sendConfirmationEmail succeeds and the
\* doctor-copy send then fails, sendConfirmationEmail does not reject.
C13_DoctorCopyFailureIsIndependent ==
    (NotifySettled /\ notify.kind = "confirmation"
        /\ Recipients = <<"patient", "doctor">>)
    => notify.pc = "resolved"

\* C14: when template rendering or ICS generation throws inside
\* sendConfirmationEmail, no email-service send is attempted, so no provider is
\* called and nothing is retried, and the call rejects at once with 'Failed to
\* send confirmation email: <message of the thrown error>'; a rejected call does
\* nothing further.
C14_GenerationErrorFailsImmediately ==
    [][/\ \A gen \in NotifyGenerationErrors :
              (NotifyGenerate(gen) /\ notify.kind = "confirmation") =>
                  /\ notify'.pc = "rejected"
                  /\ notify'.error = <<"Failed to send confirmation email", gen>>
                  /\ notify'.sends = <<>>
                  /\ providerCalls' = <<>> /\ delays' = <<>>
       /\ (NotifyRunning /\ notify.pc = "rejected") =>
              (notify' = notify /\ providerCalls' = providerCalls)]_apptVars

\* A confirmation whose ICS generation threw: rejected, nothing sent.
C14_Witness ==
    /\ NotifyRunning
    /\ notify.kind = "confirmation"
    /\ notify.pc = "rejected"
    /\ notify.error = <<"Failed to send confirmation email", "ICS generation error">>
    /\ notify.sends = <<>>
    /\ providerCalls = <<>>

\* The calendar texts attached to the sends made so far.
AttachedCalendars ==
    IF NotifyRunning
    THEN {notify.sends[i].attachments[k].content :
            i \in {j \in 1..Len(notify.sends) : Len(notify.sends[j].attachments) > 0},
            k \in {1}}
    ELSE {}

\* C15: for any appointment, the confirmation artifact and the cancellation
\* artifact carry the same UID, the cancellation's SEQUENCE is strictly greater
\* than the confirmation's, and the METHOD is REQUEST in the confirmation
\* artifact and CANCEL in the cancellation artifact.
C15_CancellationSupersedesConfirmation ==
    \A artifact \in AttachedCalendars :
        LET confirmation == generateAppointmentICS(notify.appointment)
        IN  /\ notify.kind = "confirmation" =>
                    /\ artifact = confirmation
                    /\ artifact.METHOD = "REQUEST"
            /\ notify.kind = "cancellation" =>
                    /\ artifact.UID = confirmation.UID
                    /\ artifact.SEQUENCE > confirmation.SEQUENCE
                    /\ artifact.METHOD = "CANCEL"

\* C16: the artifact attached by sendRescheduleEmail has the UID of the
\* appointment's confirmation and cancellation artifacts and a SEQUENCE strictly
\* greater than both of theirs.
C16_RescheduleSupersedesEarlierRevisions ==
    \A artifact \in AttachedCalendars :
        LET confirmation == generateAppointmentICS(notify.appointment)
            cancellation == ICSGenerator_generateCancellationICS(notify.appointment)
        IN  notify.kind = "reschedule" =>
                /\ artifact.UID = confirmation.UID
                /\ artifact.UID = cancellation.UID
                /\ artifact.SEQUENCE > confirmation.SEQUENCE
                /\ artifact.SEQUENCE > cancellation.SEQUENCE

(***************************************************************************)
(* Claims: the outcome of one lifecycle operation                          *)
(***************************************************************************)
Observed == returned.op \notin {"unobserved", "none"}

Succeeds == Observed /\ returned.error = NoError

\* The row the operation was called on, as it was before the operation.
RowBefore == CHOOSE a \in returned.table : a.id = returned.id

CalledOnRow == Observed /\ \E a \in returned.table : a.id = returned.id

\* The row a create asked the store to insert.
RequestedRow ==
    Row(returned.id, returned.input.doctor_id, returned.input.starts_at,
        returned.input.ends_at,
        IF returned.input.status = None THEN "scheduled" ELSE returned.input.status)

\* The store rejected the write of a create or of a time-changing update
\* because of the exclusion constraint: the operation reached its write (the
\* pre-check passed) and no_overlap_per_doctor refused the new table.
RejectedByExclusion ==
    /\ Observed
    /\ returned.id # NoId
    /\ \/ /\ returned.op \in CreateOps
          /\ InsertError(returned.table, RequestedRow) = ExclusionViolation
       \/ /\ returned.op \in {"updateAppointment", "rescheduleAppointment"}
          /\ returned.input.starts_at # NoTime \/ returned.input.ends_at # NoTime
          /\ CalledOnRow
          /\ ~checkOverlap(returned.table, RowBefore.doctor_id,
                           IF returned.input.starts_at # NoTime
                           THEN returned.input.starts_at ELSE RowBefore.starts_at,
                           IF returned.input.ends_at # NoTime
                           THEN returned.input.ends_at ELSE RowBefore.ends_at,
                           returned.id).hasOverlap
          /\ UpdateError(returned.table, returned.id,
                         Patched(RowBefore, returned.input.starts_at,
                                 returned.input.ends_at, returned.input.status))
                = ExclusionViolation

\* The error an operation throws when its own pre-check detects an overlap.
IsScheduleConflict(op, error) ==
    CASE op = "createAppointment" ->
            \E n \in 1..MaxAppointments : error = HookConflict(n)
      [] op = "createAppointmentSafe" ->
            error = <<"Conflicto de horario: el medico ya tiene una cita en ese horario">>
      [] OTHER ->
            \E n \in 1..MaxAppointments : error = ServiceConflict(n)

\* C17: when the store rejects a create or a time-changing update because of
\* the per-doctor exclusion constraint, the caller receives the same
\* schedule-conflict error as when the pre-check detects the overlap.
C17_ExclusionViolationIsScheduleConflict ==
    RejectedByExclusion => IsScheduleConflict(returned.op, returned.error)

\* No live appointment of the doctor other than the rescheduled one intersects
\* the new range.
NewRangeConflictFree ==
    /\ returned.input.starts_at < returned.input.ends_at
    /\ \A b \in returned.table :
        (b.id # returned.id /\ b.doctor_id = RowBefore.doctor_id
            /\ b.status # "cancelled")
        => ~Intersect(b.starts_at, b.ends_at,
                      returned.input.starts_at, returned.input.ends_at)

\* C18: rescheduling a scheduled or confirmed appointment to a conflict-free
\* new range leaves it with status scheduled and the new starts_at and ends_at.
C18_RescheduleLeavesScheduled ==
    (CalledOnRow /\ returned.op = "rescheduleAppointment"
        /\ RowBefore.status \in {"scheduled", "confirmed"}
        /\ NewRangeConflictFree)
    => /\ Succeeds
       /\ RowOf(returned.id).status = "scheduled"
       /\ RowOf(returned.id).starts_at = returned.input.starts_at
       /\ RowOf(returned.id).ends_at = returned.input.ends_at

\* A create succeeded: its row is stored.
Created == Succeeds /\ returned.op \in CreateOps

\* C19 (as stated): every appointment has status scheduled immediately after
\* its creation, whatever the create input contains.
C19_CreatedIsScheduled ==
    Created => RowOf(returned.id).status = "scheduled"

\* C19 (amended): immediately after its creation an appointment has the status
\* its create input gives, and status scheduled when the input gives none.
C19_CreatedHasInputStatusOrScheduled ==
    Created =>
        /\ Exists(returned.id)
        /\ RowOf(returned.id).status =
                IF returned.input.status = None THEN "scheduled"
                ELSE returned.input.status

\* createAppointmentSafe with status confirmed stored a confirmed appointment.
C19_Witness ==
    /\ Created
    /\ returned.op = "createAppointmentSafe"
    /\ returned.input.status = "confirmed"
    /\ RowOf(returned.id).status = "confirmed"

StoredIds(table) == {a.id : a \in table}

\* A step in which cancelAppointment returned.
StepCancelReturned == returned' # returned /\ returned'.op = "cancelAppointment"

\* C21: no operation removes an appointment record: no step shrinks the set of
\* stored appointment ids, and a cancel keeps the row and changes nothing but
\* its status, which becomes cancelled.
C21_NoRecordIsRemoved ==
    [][/\ StoredIds(appointments) \subseteq StoredIds(appointments')
       /\ (StepCancelReturned /\ Exists(returned'.id)) =>
                appointments' = WithRow(appointments, returned'.id,
                                        [RowOf(returned'.id) EXCEPT !.status = "cancelled"])
      ]_apptVars

UpdateOps == {"updateAppointment", "rescheduleAppointment",
              "useAppointments.updateAppointment"}

\* The row an update asked the store to write: the row before with the times
\* and the status of the patch.
PatchedRow ==
    Patched(RowBefore, returned.input.starts_at, returned.input.ends_at,
            returned.input.status)

\* The operation was asked for a row whose ends_at is not after its starts_at.
RequestsInvalidRange ==
    /\ Observed
    /\ \/ /\ returned.op \in CreateOps
          /\ returned.input.ends_at <= returned.input.starts_at
       \/ /\ returned.op \in UpdateOps
          /\ CalledOnRow
          /\ PatchedRow.ends_at <= PatchedRow.starts_at

\* C22: every stored appointment has ends_at > starts_at, and a create or an
\* update (a patch of starts_at alone or of ends_at alone included) asked
\* for a row that has not fails and leaves the table as it was.
C22_EndsAfterStart ==
    /\ \A a \in appointments : a.ends_at > a.starts_at
    /\ RequestsInvalidRange =>
            (returned.error # NoError /\ appointments = returned.table)

\* A patch of starts_at alone that moves the start onto or past the end passed
\* the overlap check and was refused by the store's check.
C22_Witness ==
    /\ RequestsInvalidRange
    /\ returned.op = "updateAppointment"
    /\ returned.input.starts_at # NoTime
    /\ returned.input.ends_at = NoTime
    /\ Contains(returned.error, CheckViolation)
    /\ appointments = returned.table

(***************************************************************************)
(* Claims: the rules on the time of an appointment                         *)
(***************************************************************************)
\* A create returned: a call of the hook's or of the service's create, or a
\* submit of the create form that a rule of the form ended.
CreateReturned ==
    Observed /\ returned.op \in CreateOps \cup {"CreateAppointmentForm.onSubmit"}

\* The start the create asked for is strictly after the clock reading of the
\* call, on a weekday and at a local hour in [8, 20), and no live appointment
\* of the doctor intersects the range asked for.
CreateRulesHold ==
    /\ returned.input.starts_at > returned.now
    /\ getDay(returned.input.starts_at) \in 1..5
    /\ getHours(returned.input.starts_at) \in 8..19
    /\ \A b \in returned.table :
            (b.doctor_id = returned.input.doctor_id /\ b.status # "cancelled")
            => ~Intersect(b.starts_at, b.ends_at,
                          returned.input.starts_at, returned.input.ends_at)

\* C23: an appointment is created only if its start is strictly in the future,
\* on a weekday and at a local hour in [8, 20), and the overlap check passes;
\* otherwise the create fails and nothing is stored.
C23_CreatedOnlyInBusinessTime ==
    (CreateReturned /\ ~CreateRulesHold) =>
        (returned.error # NoError /\ appointments = returned.table)

\* An edit of a stored appointment returned: an update of the service or of the
\* hook, or a submit of the edit form that a rule of the form ended.
EditReturned ==
    /\ CalledOnRow
    /\ returned.op \in UpdateOps \cup {"EditAppointmentForm.onSubmit"}

\* The appointment started before the clock reading of the call, or is completed.
PastOrCompleted ==
    RowBefore.starts_at < returned.now \/ RowBefore.status = "completed"

\* C24: an edit never changes the starts_at and ends_at of an appointment whose
\* start is in the past or whose status is completed; of the modelled columns
\* it can change only the status of such an appointment, and only to cancelled.
C24_PastOrCompletedKeepsItsTime ==
    (EditReturned /\ PastOrCompleted) =>
        /\ Exists(returned.id)
        /\ RowOf(returned.id).starts_at = RowBefore.starts_at
        /\ RowOf(returned.id).ends_at = RowBefore.ends_at
        /\ RowOf(returned.id).status \in {RowBefore.status, "cancelled"}

\* complete or mark-no-show returned for a stored appointment.
CompletionReturned ==
    CalledOnRow /\ returned.op \in {"completeAppointment", "markNoShow"}

\* C25: complete and mark-no-show take effect only on an appointment that is
\* confirmed and whose ends_at is before the clock reading of the call; on any
\* other appointment they leave the status as it is.
C25_CompletionNeedsConfirmedAndEnded ==
    (CompletionReturned
        /\ ~(RowBefore.status = "confirmed" /\ RowBefore.ends_at < returned.now))
    => RowOf(returned.id).status = RowBefore.status

(***************************************************************************)
(* Claims: the waits of send and the order of the batch                    *)
(***************************************************************************)
\* C26: the wait between failed attempt k and attempt k+1 is k x retryDelayMs:
\* the k-th wait of a send follows its k-th failed attempt, k < retryAttempts,
\* and lasts k x retryDelayMs; every attempt but the first is preceded by the
\* wait of the attempt before it, and send rejects after retryAttempts - 1
\* waits, with no wait after the last failed attempt.
C26_LinearRetryDelay ==
    /\ \A k \in 1..Len(delays) :
            /\ delays[k] = k * RetryDelayMs
            /\ k < retryAttempts
            /\ k <= Len(providerCalls) /\ IsError(providerCalls[k])
    /\ sendPc = "calling" => Len(delays) = Len(providerCalls)
    /\ sendPc = "resolved" => Len(delays) = Len(providerCalls) - 1
    /\ (sendPc = "rejected" /\ retryAttempts >= 1) =>
            (Len(providerCalls) = retryAttempts /\ Len(delays) = retryAttempts - 1)

\* Three attempts failed: send waited 1000 ms, then 2000 ms, and rejected.
C26_Witness ==
    /\ sendPc = "rejected"
    /\ retryAttempts = 3
    /\ Len(providerCalls) = 3
    /\ delays = <<RetryDelayMs, 2 * RetryDelayMs>>

\* A send of the batch is unsettled: a provider call is in flight or the wait
\* before the next one runs.
SendInFlight == sendPc \in {"calling", "delay"}

\* A step of the batch that invokes emailService.send for an item.
StepStartsItemSend ==
    /\ BatchRunning
    /\ dispatched' = dispatched + 1
    /\ batch'.pc = "awaiting"

\* C27: during sendBatchReminders at most one send is in flight: an unsettled
\* send is the send of the current item, every item before it is counted, and
\* the send of an item starts only when no send is unsettled.
C27_BatchIsSequential ==
    /\ [](BatchRunning /\ SendInFlight =>
            /\ batch.pc = "awaiting"
            /\ batch.successful + batch.failed = batch.i - 1
            /\ dispatched = batch.i)
    /\ [][StepStartsItemSend =>
            /\ ~SendInFlight
            /\ batch.successful + batch.failed = batch.i - 1]_apptVars

\* The send of the second item is in flight after the first item was counted.
C27_Witness ==
    /\ BatchRunning
    /\ batch.i = 2
    /\ batch.successful + batch.failed = 1
    /\ sendPc = "calling"

(***************************************************************************)
(* Claims: a failed overlap query                                          *)
(***************************************************************************)
\* The overlap pre-check of the observed operation ended with a storage error.
OverlapQueryFailed == check # NoCheck /\ check.queryError # NoError

\* C28: a storage error during the overlap pre-check is surfaced as an error:
\* once the query of the pre-check has failed, the operation does not go on to
\* its write (no request is pending), it has thrown, and no step changes the
\* table.
C28_FailedOverlapQueryIsAnError ==
    /\ [](OverlapQueryFailed =>
            /\ \A c \in Clients : req[c] = Idle
            /\ Observed
            /\ returned.error # NoError)
    /\ [][OverlapQueryFailed => appointments' = appointments]_apptVars

(***************************************************************************)
(* Claims: the method of the calendar attachments                          *)
(***************************************************************************)
\* The method the content type of each kind of attachment declares.
DeclaredMethod(type) ==
    CASE type = "confirmation" -> "REQUEST"
      [] type = "cancellation" -> "CANCEL"
      [] type = "reschedule" -> "REQUEST"
      [] type = "reminder" -> "PUBLISH"

\* C29: for the attachments of generateConfirmationICS, generateCancellationICS,
\* generateRescheduleICS and generateReminderICS of the appointment of an
\* e-mail whose attachment was generated, the METHOD line of the calendar body is the method parameter of the
\* content type: REQUEST, CANCEL, REQUEST and PUBLISH.
C29_BodyMethodIsDeclaredMethod ==
    (NotifyRunning /\ Len(notify.sends) >= 1) =>
        \A type \in ICSTypes :
            LET attachment == createICSAttachment(type, notify.appointment)
            IN  /\ attachment.contentType.method = DeclaredMethod(type)
                /\ attachment.content.METHOD = attachment.contentType.method

(***************************************************************************)
(* Claims: termination of send                                             *)
(***************************************************************************)
\* C30: for every retryAttempts, when every provider call settles, a send
\* terminates (resolves or rejects), and it has then made at least one and at
\* most retryAttempts provider calls.
C30_SendTerminatesWithinRetryBudget ==
    /\ (sendPc # "idle") ~> SendDone
    /\ [](SendDone => /\ Len(providerCalls) >= 1
                      /\ Len(providerCalls) <= retryAttempts)

\* (the part of C30 that holds: termination within the budget)
C30_TerminatesAtMostRetryAttempts ==
    /\ (sendPc # "idle") ~> SendDone
    /\ [](SendDone => Len(providerCalls) <= retryAttempts)

====
